---- MODULE Spec2Model ----
(***************************************************************************)
(* Model of the oppy transcription worker: the deadline-bounded pipeline   *)
(* orchestrator (worker/main.py), the speaker merge (pipeline/merge.py)    *)
(* and the exporter (pipeline/export.py).                                  *)
(*                                                                         *)
(* Conventions.  Times are integers counting half seconds.  A text is a    *)
(* sequence of one-character strings, so that str.strip() is computed.     *)
(* A Python value that may be None is a record with a flag `set`.          *)
(***************************************************************************)
EXTENDS Integers, Sequences, FiniteSets, TLC

VARIABLES
    pc,                 \* position of the main thread
    argv,               \* parsed command line: bootstrap, config, asr_model
    environ,            \* process environment and file system facts read by main
    events,             \* lines printed on standard output, in order
    calls,              \* invocations and returns of the stage operations, in order
    exit_code,          \* value returned by main(): [set, value]
    holder,             \* _transcribe_with_timeout: holder dict
    completed,          \* _transcribe_with_timeout: threading.Event
    wait_result,        \* _transcribe_with_timeout: what completed.wait returned
    worker,             \* state of the background transcription thread
    asr_output,         \* main: asr_output
    diarization_output, \* main: diarization_output
    diarization_warning,\* main: diarization_warning
    merged_segments,    \* main: merged_segments
    files               \* artifacts on disk

vars == <<pc, argv, environ, events, calls, exit_code, holder, completed, wait_result,
          worker,
          asr_output, diarization_output, diarization_warning, merged_segments, files>>

-----------------------------------------------------------------------------
(* Bounds of the model *)

MaxSegs == 2
MaxTurns == 2

(* Sample values of the inputs *)

TimePoints == {0, 2, 4}
Labels == {"", "SPEAKER_07", "SPEAKER_03"}
Texts == {<<" ">>, <<" ", "a", " ">>}
Messages == {"", "service down"}
ErrorTypes == {"RuntimeError", "TimeoutError"}
IOMessages == {"disk error"}

-----------------------------------------------------------------------------
(* Arithmetic helpers *)

Max(a, b) == IF a >= b THEN a ELSE b
Min(a, b) == IF a <= b THEN a ELSE b
Abs(a) == IF a >= 0 THEN a ELSE 0 - a

(* str.strip() on a text *)
IsSpace(c) == c = " "

RECURSIVE LStrip(_)
LStrip(t) == IF t = <<>> THEN <<>>
             ELSE IF IsSpace(Head(t)) THEN LStrip(Tail(t)) ELSE t

RECURSIVE RStrip(_)
RStrip(t) == IF t = <<>> THEN <<>>
             ELSE IF IsSpace(t[Len(t)]) THEN RStrip(SubSeq(t, 1, Len(t) - 1)) ELSE t

Strip(t) == RStrip(LStrip(t))

(* Sequences over S of length at most n *)
SeqUpTo(S, n) == UNION {[1..k -> S] : k \in 0..n}

-----------------------------------------------------------------------------
(* pipeline/merge.py *)

UnknownSpeaker == "Speaker ?"

(* An ASR segment dict: `has_end` is FALSE when the key "end" is absent. *)
Segment(start, end, has_end, text) ==
    [start |-> start, end |-> end, has_end |-> has_end, text |-> text]

Turn(start, end, speaker) == [start |-> start, end |-> end, speaker |-> speaker]

_overlap(a_start, a_end, b_start, b_end) ==
    Max(0, Min(a_end, b_end) - Max(a_start, b_start))

(* key of _nearest_speaker, on the doubled midpoint mid2 = start + end *)
NearestKey(mid2, turn) ==
    Min(Abs(mid2 - 2 * turn.start), Abs(mid2 - 2 * turn.end))

(* min(turns, key=...) returns the first turn whose key is minimal *)
RECURSIVE NearestLoop(_, _, _, _)
NearestLoop(mid2, turns, i, best) ==
    IF i > Len(turns) THEN best
    ELSE IF NearestKey(mid2, turns[i]) < NearestKey(mid2, turns[best])
         THEN NearestLoop(mid2, turns, i + 1, i)
         ELSE NearestLoop(mid2, turns, i + 1, best)

_nearest_speaker(mid2, turns) == turns[NearestLoop(mid2, turns, 2, 1)].speaker

(* the loop over the turns: best_speaker is None (set = FALSE) or a label *)
RECURSIVE BestOverlapLoop(_, _, _, _, _, _)
BestOverlapLoop(start, end, turns, i, best_speaker, best_overlap) ==
    IF i > Len(turns) THEN best_speaker
    ELSE LET overlap == _overlap(start, end, turns[i].start, turns[i].end)
         IN  IF overlap > best_overlap
             THEN BestOverlapLoop(start, end, turns, i + 1,
                                  [set |-> TRUE, label |-> turns[i].speaker], overlap)
             ELSE BestOverlapLoop(start, end, turns, i + 1, best_speaker, best_overlap)

(* `not best_speaker`: None and the empty string are both falsy *)
Falsy(opt) == ~opt.set \/ opt.label = ""

SegStart(seg) == seg.start
SegEndOrStart(seg) ==
    LET end == IF seg.has_end THEN seg.end ELSE seg.start
    IN  IF end < seg.start THEN seg.start ELSE end

AssignSpeaker(seg, turns) ==
    LET start == SegStart(seg)
        end == SegEndOrStart(seg)
        best == BestOverlapLoop(start, end, turns, 1, [set |-> FALSE, label |-> ""], 0)
    IN  IF Falsy(best) THEN _nearest_speaker(start + end, turns) ELSE best.label

Contains(s, x) == \E i \in 1..Len(s) : s[i] = x

(* the loop over the segments: <<raw_labeled_segments, label_order>> *)
RECURSIVE RawLabelLoop(_, _, _, _, _)
RawLabelLoop(segs, turns, i, raw, label_order) ==
    IF i > Len(segs) THEN <<raw, label_order>>
    ELSE LET text == Strip(segs[i].text)
         IN  IF text = <<>> THEN RawLabelLoop(segs, turns, i + 1, raw, label_order)
             ELSE LET best_speaker == AssignSpeaker(segs[i], turns)
                      order == IF Contains(label_order, best_speaker) THEN label_order
                               ELSE Append(label_order, best_speaker)
                      item == [start |-> SegStart(segs[i]), end |-> SegEndOrStart(segs[i]),
                               text |-> text, speaker |-> best_speaker]
                  IN  RawLabelLoop(segs, turns, i + 1, Append(raw, item), order)

(* variant: the label index is not shifted to count from 1 *)
SpeakerNameFromZero(idx) == "Speaker " \o ToString(idx)

RawLabeled(segs, turns) == RawLabelLoop(segs, turns, 1, <<>>, <<>>)

SpeakerName(idx) == "Speaker " \o ToString(idx + 1)

(* speaker_map.get(raw, "Speaker ?"), idx counted from 0 as enumerate does *)
SpeakerMapGet(label_order, raw) ==
    IF Contains(label_order, raw)
    THEN SpeakerName((CHOOSE i \in 1..Len(label_order) : label_order[i] = raw) - 1)
    ELSE UnknownSpeaker

(* variant: without turns the segments are numbered like a single speaker *)
MergeNoTurnsNumbered(segs) ==
    LET kept == SelectSeq(segs, LAMBDA seg : Strip(seg.text) # <<>>)
    IN  [i \in 1..Len(kept) |->
            [start |-> kept[i].start,
             end |-> IF kept[i].has_end THEN kept[i].end ELSE 0,
             text |-> Strip(kept[i].text),
             speaker |-> "Speaker 1"]]

(* variant: segments whose trimmed text is empty are kept *)
MergeKeepingBlanks(asr_segments, diarization_turns) ==
    [i \in 1..Len(asr_segments) |->
        [start |-> asr_segments[i].start,
         end |-> SegEndOrStart(asr_segments[i]),
         text |-> Strip(asr_segments[i].text),
         speaker |-> UnknownSpeaker]]

MergeNoTurns(segs) ==
    LET kept == SelectSeq(segs, LAMBDA seg : Strip(seg.text) # <<>>)
    IN  [i \in 1..Len(kept) |->
            [start |-> kept[i].start,
             end |-> IF kept[i].has_end THEN kept[i].end ELSE 0,
             text |-> Strip(kept[i].text),
             speaker |-> UnknownSpeaker]]

merge_segments_with_speakers(asr_segments, diarization_turns) ==
    IF diarization_turns = <<>> THEN MergeNoTurns(asr_segments)
    ELSE LET r == RawLabeled(asr_segments, diarization_turns)
             raw == r[1]
             label_order == r[2]
         IN  [i \in 1..Len(raw) |->
                [start |-> raw[i].start, end |-> raw[i].end, text |-> raw[i].text,
                 speaker |-> SpeakerMapGet(label_order, raw[i].speaker)]]

-----------------------------------------------------------------------------
(* pipeline/export.py *)

Pad2(n) == IF n < 10 THEN "0" \o ToString(n) ELSE ToString(n)

(* round() on the non-negative value n / unit: a half goes to the even neighbour *)
RoundHalfEven(n, unit) ==
    LET whole == n \div unit
        rest == n % unit
    IN  IF 2 * rest < unit THEN whole
        ELSE IF 2 * rest > unit THEN whole + 1
        ELSE IF whole % 2 = 0 THEN whole ELSE whole + 1

(* variant: the seconds are truncated, not rounded *)
FormatTimestampTruncating(value, unit) ==
    LET total == Max(0, value) \div unit
    IN  Pad2(total \div 60) \o ":" \o Pad2(total % 60)

(* _format_timestamp on the time value / unit seconds *)
FormatTimestampIn(value, unit) ==
    LET total == RoundHalfEven(Max(0, value), unit)
        minutes == total \div 60
        secs == total % 60
    IN  Pad2(minutes) \o ":" \o Pad2(secs)

(* _format_timestamp on a time in half seconds *)
_format_timestamp(seconds2) == FormatTimestampIn(seconds2, 2)

Line(kind, ts, speaker, text) == [kind |-> kind, ts |-> ts, speaker |-> speaker, text |-> text]

HeaderLineCount == 11
RawTextThreshold == 12

HeaderLines == [i \in 1..HeaderLineCount |-> Line("header", "", "", <<>>)]

RECURSIVE SegmentLines(_, _)
SegmentLines(merged, i) ==
    IF i > Len(merged) THEN <<>>
    ELSE IF Strip(merged[i].text) = <<>> THEN SegmentLines(merged, i + 1)
         ELSE <<Line("segment", _format_timestamp(merged[i].start), merged[i].speaker,
                     Strip(merged[i].text))>> \o SegmentLines(merged, i + 1)

RawTextLines(full_text) ==
    <<Line("blank", "", "", <<>>), Line("raw_header", "", "", <<>>),
      Line("blank", "", "", <<>>), Line("raw", "", "", Strip(full_text))>>

RenderMarkdown(merged, full_text) ==
    LET lines == HeaderLines \o SegmentLines(merged, 1)
    IN  IF Len(lines) <= RawTextThreshold /\ Strip(full_text) # <<>>
        THEN lines \o RawTextLines(full_text)
        ELSE lines

AbsentFile == [exists |-> FALSE, complete |-> FALSE, lines |-> <<>>, segments |-> <<>>]
MarkdownFile(lines) == [exists |-> TRUE, complete |-> TRUE, lines |-> lines, segments |-> <<>>]
JsonFile(segments) == [exists |-> TRUE, complete |-> TRUE, lines |-> <<>>, segments |-> segments]
TruncatedFile == [exists |-> TRUE, complete |-> FALSE, lines |-> <<>>, segments |-> <<>>]

-----------------------------------------------------------------------------
(* The providers, as worker/main.py sees them *)

Exceptions == [type : ErrorTypes, msg : Messages]
NoError == [type |-> "", msg |-> ""]

(* pipeline/asr.py, transcribe_with_mlx: texts are stripped; the segments are
   the provider's non-empty ones, or the single segment spanning the clip *)
Duration == CHOOSE t \in TimePoints : \A u \in TimePoints : u <= t
ProviderTexts == {Strip(t) : t \in Texts} \ {<<>>}
ProviderSegments ==
    {Segment(s, s + 2, TRUE, t) : s \in TimePoints \ {Duration}, t \in ProviderTexts}
ProviderSegmentLists(text) ==
    (SeqUpTo(ProviderSegments, MaxSegs) \ {<<>>}) \cup {<<Segment(0, Duration, TRUE, text)>>}
AsrOutputs ==
    {[text |-> t, segments |-> l, duration_seconds |-> Duration] :
        t \in ProviderTexts \cup {<<>>},
        l \in UNION {ProviderSegmentLists(x) : x \in ProviderTexts \cup {<<>>}}}
NoOutput == [text |-> <<>>, segments |-> <<>>, duration_seconds |-> 0]

(* pipeline/diarization.py, diarize_with_pyannote: turns sorted by start *)
ProviderTurns == {Turn(0, 2, "SPEAKER_07"), Turn(2, Duration, "SPEAKER_03")}
IsSortedByStart(turns) ==
    \A i \in 1..Len(turns) - 1 : turns[i].start <= turns[i + 1].start
DiarizationOutputs == {l \in SeqUpTo(ProviderTurns, MaxTurns) : IsSortedByStart(l)}

-----------------------------------------------------------------------------
(* worker/main.py: events and results *)

ProgressEvent(stage, message) ==
    [type |-> "progress", stage |-> stage, success |-> FALSE, error_code |-> "",
     message |-> message]

ResultEvent(success, error_code, message) ==
    [type |-> "result", stage |-> "", success |-> success, error_code |-> error_code,
     message |-> message]

Call(op, ev) == [op |-> op, ev |-> ev]

TimeoutMessage == "ASR transcription timed out"

(* `if not diarization_warning`: None and the empty string are both falsy *)
NoWarning(warning) == ~warning.set \/ warning.text = ""

SuccessMessage(warning) ==
    IF NoWarning(warning) THEN "Processing complete"
    ELSE "Processing complete (diarization fallback: " \o warning.text \o ")"

NoExit == [set |-> FALSE, value |-> 0]
Exit(status) == [set |-> TRUE, value |-> status]

(* emit_result(False, ...) followed by return 1, after the events `evs` *)
FailWith(evs, error_code, message) ==
    /\ events' = Append(evs, ResultEvent(FALSE, error_code, message))
    /\ exit_code' = Exit(1)
    /\ pc' = "done"

TokenValues == {<<>>, <<" ">>, <<"t">>}

DefaultEnviron ==
    [config_ok |-> FALSE, audio_exists |-> FALSE, mic_exists |-> FALSE,
     save_json |-> FALSE, token_set |-> FALSE, token |-> <<>>]

Init ==
    /\ pc = "start"
    /\ argv \in [bootstrap : BOOLEAN, config : BOOLEAN, asr_model : {<<>>, <<" ">>, <<"m">>}]
    /\ environ \in [config_ok : BOOLEAN, audio_exists : BOOLEAN, mic_exists : BOOLEAN,
                    save_json : BOOLEAN, token_set : BOOLEAN, token : TokenValues]
    /\ (~environ.token_set => environ.token = <<>>)
    \* what the chosen mode never reads is left at its default
    /\ (argv.bootstrap => ~argv.config)
    /\ (~argv.bootstrap => argv.asr_model = <<>>)
    /\ (~argv.config => environ = DefaultEnviron)
    /\ events = <<>>
    /\ calls = <<>>
    /\ exit_code = NoExit
    /\ holder = [has_result |-> FALSE, result |-> NoOutput, has_error |-> FALSE, error |-> NoError]
    /\ completed = FALSE
    /\ wait_result = "none"
    /\ worker = "idle"
    /\ asr_output = NoOutput
    /\ diarization_output = <<>>
    /\ diarization_warning = [set |-> FALSE, text |-> ""]
    /\ merged_segments = <<>>
    /\ files = [primary |-> "original", mixing_tmp |-> FALSE, bootstrap_wav |-> FALSE,
                md |-> AbsentFile, md_tmp |-> AbsentFile,
                json |-> AbsentFile, json_tmp |-> AbsentFile]

(* variant: the token is read without strip() *)
TokenUnstripped == IF environ.token_set THEN environ.token ELSE <<>>

(* os.environ.get("HF_TOKEN", "").strip() *)
Token == Strip(IF environ.token_set THEN environ.token ELSE <<>>)

-----------------------------------------------------------------------------
(* worker/main.py: main, up to the mixer *)

MainBootstrapMode ==
    /\ pc = "start"
    /\ argv.bootstrap
    /\ pc' = "bootstrap"
    /\ UNCHANGED <<argv, environ, events, calls, exit_code, holder, completed, wait_result, worker,
                   asr_output, diarization_output, diarization_warning, merged_segments, files>>

MainConfigPathMissing ==
    /\ pc = "start"
    /\ ~argv.bootstrap
    /\ ~argv.config
    /\ FailWith(events, "CONFIG_PATH_MISSING", "Worker config path is required.")
    /\ UNCHANGED <<argv, environ, calls, holder, completed, wait_result, worker,
                   asr_output, diarization_output, diarization_warning, merged_segments, files>>

MainLoadConfig ==
    /\ pc = "start"
    /\ ~argv.bootstrap
    /\ argv.config
    /\ IF environ.config_ok
       THEN /\ pc' = "validate"
            /\ UNCHANGED <<events, exit_code>>
       ELSE \E m \in IOMessages : FailWith(events, "WORKER_EXCEPTION", m)
    /\ UNCHANGED <<argv, environ, calls, holder, completed, wait_result, worker,
                   asr_output, diarization_output, diarization_warning, merged_segments, files>>

MainAudioNotFound ==
    /\ pc = "validate"
    /\ ~environ.audio_exists
    /\ FailWith(events, "INPUT_AUDIO_NOT_FOUND", "Audio file not found")
    /\ UNCHANGED <<argv, environ, calls, holder, completed, wait_result, worker,
                   asr_output, diarization_output, diarization_warning, merged_segments, files>>

MainTokenMissing ==
    /\ pc = "validate"
    /\ environ.audio_exists
    /\ Token = <<>>
    /\ FailWith(events, "HF_TOKEN_MISSING", "No Hugging Face token found in worker environment.")
    /\ UNCHANGED <<argv, environ, calls, holder, completed, wait_result, worker,
                   asr_output, diarization_output, diarization_warning, merged_segments, files>>

MainMix ==
    /\ pc = "validate"
    /\ environ.audio_exists
    /\ Token # <<>>
    /\ events' = Append(events, ProgressEvent("mix", "Preparing combined audio track"))
    /\ calls' = Append(calls, Call("mix", "call"))
    /\ pc' = "mixing"
    /\ UNCHANGED <<argv, environ, exit_code, holder, completed, wait_result, worker,
                   asr_output, diarization_output, diarization_warning, merged_segments, files>>

(* pipeline/input_mix.py: maybe_mix_microphone_track *)

MixPassthrough ==
    /\ pc = "mixing"
    /\ ~environ.mic_exists
    /\ calls' = Append(calls, Call("mix", "return"))
    /\ pc' = "asr"
    /\ UNCHANGED <<argv, environ, events, exit_code, holder, completed, wait_result, worker,
                   asr_output, diarization_output, diarization_warning, merged_segments, files>>

MixWriteTemp ==
    /\ pc = "mixing"
    /\ environ.mic_exists
    /\ \/ /\ files' = [files EXCEPT !.mixing_tmp = TRUE]
          /\ pc' = "mix_replace"
          /\ UNCHANGED <<events, exit_code, calls>>
       \/ /\ \E left \in BOOLEAN : files' = [files EXCEPT !.mixing_tmp = left]
          /\ calls' = Append(calls, Call("mix", "raise"))
          /\ \E m \in IOMessages : FailWith(events, "WORKER_EXCEPTION", m)
    /\ UNCHANGED <<argv, environ, holder, completed, wait_result, worker,
                   asr_output, diarization_output, diarization_warning, merged_segments>>

MixReplace ==
    /\ pc = "mix_replace"
    /\ \/ /\ files' = [files EXCEPT !.mixing_tmp = FALSE, !.primary = "mixed"]
          /\ calls' = Append(calls, Call("mix", "return"))
          /\ pc' = "asr"
          /\ UNCHANGED <<events, exit_code>>
       \/ /\ calls' = Append(calls, Call("mix", "raise"))
          /\ \E m \in IOMessages : FailWith(events, "WORKER_EXCEPTION", m)
          /\ UNCHANGED files
    /\ UNCHANGED <<argv, environ, holder, completed, wait_result, worker,
                   asr_output, diarization_output, diarization_warning, merged_segments>>

-----------------------------------------------------------------------------
(* worker/main.py: _transcribe_with_timeout and the transcription stage *)

MainStartTranscribe ==
    /\ pc = "asr"
    /\ events' = Append(events, ProgressEvent("asr", "Transcribing with MLX model"))
    /\ holder' = [has_result |-> FALSE, result |-> NoOutput, has_error |-> FALSE, error |-> NoError]
    /\ completed' = FALSE
    /\ wait_result' = "none"
    /\ worker' = "running"
    /\ calls' = Append(calls, Call("asr", "call"))
    /\ pc' = "asr_wait"
    /\ UNCHANGED <<argv, environ, exit_code,
                   asr_output, diarization_output, diarization_warning, merged_segments, files>>

(* run_transcription: the call returns *)
WorkerReturn ==
    /\ worker = "running"
    /\ \E out \in AsrOutputs : holder' = [holder EXCEPT !.has_result = TRUE, !.result = out]
    /\ completed' = TRUE
    /\ worker' = "finished"
    /\ calls' = Append(calls, Call("asr", "return"))
    /\ UNCHANGED <<pc, argv, environ, events, exit_code, wait_result,
                   asr_output, diarization_output, diarization_warning, merged_segments, files>>

(* run_transcription: the call raises *)
WorkerRaise ==
    /\ worker = "running"
    /\ \E exc \in Exceptions : holder' = [holder EXCEPT !.has_error = TRUE, !.error = exc]
    /\ completed' = TRUE
    /\ worker' = "finished"
    /\ calls' = Append(calls, Call("asr", "raise"))
    /\ UNCHANGED <<pc, argv, environ, events, exit_code, wait_result,
                   asr_output, diarization_output, diarization_warning, merged_segments, files>>

(* run_transcription: the call raises a BaseException that is no Exception
   (SystemExit of a library's sys.exit, GeneratorExit): `except Exception` lets
   it through, the finally clause sets the event, the holder stays empty *)
WorkerRaiseBaseException ==
    /\ worker = "running"
    /\ completed' = TRUE
    /\ worker' = "finished"
    /\ calls' = Append(calls, Call("asr", "raise"))
    /\ UNCHANGED <<pc, argv, environ, events, exit_code, holder, wait_result,
                   asr_output, diarization_output, diarization_warning, merged_segments, files>>

(* variant: completed.wait() without a timeout never reports expiry *)
MainWaitForever ==
    /\ pc = "asr_wait"
    /\ ~completed
    /\ worker = "finished"
    /\ FailWith(events, "ASR_TIMEOUT", TimeoutMessage)
    /\ wait_result' = "expired"
    /\ UNCHANGED <<argv, environ, calls, holder, completed, worker,
                   asr_output, diarization_output, diarization_warning, merged_segments, files>>

(* completed.wait(timeout_seconds) returns False: the deadline expired *)
MainWaitTimeout ==
    /\ pc = "asr_wait"
    /\ ~completed
    /\ FailWith(events, "ASR_TIMEOUT", TimeoutMessage)
    /\ wait_result' = "expired"
    /\ UNCHANGED <<argv, environ, calls, holder, completed, worker,
                   asr_output, diarization_output, diarization_warning, merged_segments, files>>

(* the error kind main reports for an error raised out of _transcribe_with_timeout *)
AsrErrorCode(exc) == IF exc.type = "TimeoutError" THEN "ASR_TIMEOUT" ELSE "WORKER_EXCEPTION"

(* completed.wait returns True and the holder carries an error: raise error *)
MainWaitError ==
    /\ pc = "asr_wait"
    /\ completed
    /\ holder.has_error
    /\ FailWith(events, AsrErrorCode(holder.error), holder.error.msg)
    /\ wait_result' = "signalled"
    /\ UNCHANGED <<argv, environ, calls, holder, completed, worker,
                   asr_output, diarization_output, diarization_warning, merged_segments, files>>

(* variant: the result is handed to merge, the diarization stage left out *)
MainWaitResultSkipsDiarization ==
    /\ pc = "asr_wait"
    /\ completed
    /\ ~holder.has_error
    /\ holder.has_result
    /\ asr_output' = holder.result
    /\ wait_result' = "signalled"
    /\ pc' = "merge"
    /\ UNCHANGED <<argv, environ, events, calls, exit_code, holder, completed, worker,
                   diarization_output, diarization_warning, merged_segments, files>>

(* completed.wait returns True and there is no error: return holder["result"] *)
MainWaitResult ==
    /\ pc = "asr_wait"
    /\ completed
    /\ ~holder.has_error
    /\ holder.has_result
    /\ asr_output' = holder.result
    /\ pc' = "diarization"
    /\ wait_result' = "signalled"
    /\ UNCHANGED <<argv, environ, events, calls, exit_code, holder, completed, worker,
                   diarization_output, diarization_warning, merged_segments, files>>

(* completed.wait returns True and the holder is empty: holder["result"]
   raises KeyError('result'), which main reports like any other error *)
MainWaitKeyError ==
    /\ pc = "asr_wait"
    /\ completed
    /\ ~holder.has_error
    /\ ~holder.has_result
    /\ FailWith(events, "WORKER_EXCEPTION", "'result'")
    /\ wait_result' = "signalled"
    /\ UNCHANGED <<argv, environ, calls, holder, completed, worker,
                   asr_output, diarization_output, diarization_warning, merged_segments, files>>

-----------------------------------------------------------------------------
(* worker/main.py: diarization, merge *)

MainDiarize ==
    /\ pc = "diarization"
    /\ \E turns \in DiarizationOutputs :
          /\ diarization_output' = turns
          /\ diarization_warning' = [set |-> FALSE, text |-> ""]
    /\ events' = Append(events, ProgressEvent("diarization", "Running pyannote diarization"))
    /\ calls' = calls \o <<Call("diarization", "call"), Call("diarization", "return")>>
    /\ pc' = "merge"
    /\ UNCHANGED <<argv, environ, exit_code, holder, completed, wait_result, worker,
                   asr_output, merged_segments, files>>

(* variant: a diarization error is not caught apart and fails the run *)
MainDiarizeFatal ==
    /\ pc = "diarization"
    /\ \E exc \in Exceptions :
          FailWith(Append(events, ProgressEvent("diarization", "Running pyannote diarization")),
                   "WORKER_EXCEPTION", exc.msg)
    /\ calls' = calls \o <<Call("diarization", "call"), Call("diarization", "raise")>>
    /\ UNCHANGED <<argv, environ, holder, completed, wait_result, worker,
                   asr_output, diarization_output, diarization_warning, merged_segments, files>>

(* the events of the diarization stage when the provider raises *)
DiarizationFallbackEvents ==
    <<ProgressEvent("diarization", "Running pyannote diarization"),
      ProgressEvent("diarization", "Diarization failed, continuing with unknown speakers")>>

(* variant: the merge stage emits no Progress event *)
MainMergeSilent ==
    /\ pc = "merge"
    /\ merged_segments' = merge_segments_with_speakers(asr_output.segments, diarization_output)
    /\ calls' = calls \o <<Call("merge", "call"), Call("merge", "return")>>
    /\ pc' = "export"
    /\ UNCHANGED <<argv, environ, events, exit_code, holder, completed, wait_result, worker,
                   asr_output, diarization_output, diarization_warning, files>>

MainDiarizeFallback ==
    /\ pc = "diarization"
    /\ \E exc \in Exceptions :
          /\ diarization_output' = <<>>
          /\ diarization_warning' = [set |-> TRUE, text |-> exc.msg]
    /\ events' = events \o DiarizationFallbackEvents
    /\ calls' = calls \o <<Call("diarization", "call"), Call("diarization", "raise")>>
    /\ pc' = "merge"
    /\ UNCHANGED <<argv, environ, exit_code, holder, completed, wait_result, worker,
                   asr_output, merged_segments, files>>

MainMerge ==
    /\ pc = "merge"
    /\ events' = Append(events, ProgressEvent("merge", "Assigning speakers to transcript segments"))
    /\ merged_segments' = merge_segments_with_speakers(asr_output.segments, diarization_output)
    /\ calls' = calls \o <<Call("merge", "call"), Call("merge", "return")>>
    /\ pc' = "export"
    /\ UNCHANGED <<argv, environ, exit_code, holder, completed, wait_result, worker,
                   asr_output, diarization_output, diarization_warning, files>>

-----------------------------------------------------------------------------
(* worker/main.py and pipeline/export.py: export_outputs, step by step *)

(* an error raised inside export_outputs, caught by main's handler *)
ExportRaise ==
    /\ calls' = Append(calls, Call("export", "raise"))
    /\ \E m \in IOMessages : FailWith(events, "WORKER_EXCEPTION", m)

(* emit_progress("export"), then mkdir of the output folder *)
MainExport ==
    /\ pc = "export"
    /\ \/ /\ events' = Append(events, ProgressEvent("export", "Writing markdown transcript"))
          /\ calls' = Append(calls, Call("export", "call"))
          /\ pc' = "export_md_write"
          /\ UNCHANGED exit_code
       \/ /\ calls' = calls \o <<Call("export", "call"), Call("export", "raise")>>
          /\ \E m \in IOMessages :
                FailWith(Append(events, ProgressEvent("export", "Writing markdown transcript")),
                         "WORKER_EXCEPTION", m)
    /\ UNCHANGED <<argv, environ, holder, completed, wait_result, worker,
                   asr_output, diarization_output, diarization_warning, merged_segments, files>>

(* variant: the transcript is written straight to its canonical path *)
ExportWriteDirectMd ==
    /\ pc = "export_md_write"
    /\ \/ /\ files' = [files EXCEPT
                         !.md = MarkdownFile(RenderMarkdown(merged_segments, asr_output.text))]
          /\ pc' = "export_md_replace"
          /\ UNCHANGED <<events, exit_code, calls>>
       \/ /\ \E left \in {AbsentFile, TruncatedFile} : files' = [files EXCEPT !.md = left]
          /\ ExportRaise
    /\ UNCHANGED <<argv, environ, holder, completed, wait_result, worker,
                   asr_output, diarization_output, diarization_warning, merged_segments>>

(* _write_atomic(transcript_path, markdown): temp_path.write_text *)
ExportWriteTempMd ==
    /\ pc = "export_md_write"
    /\ \/ /\ files' = [files EXCEPT
                         !.md_tmp = MarkdownFile(RenderMarkdown(merged_segments, asr_output.text))]
          /\ pc' = "export_md_replace"
          /\ UNCHANGED <<events, exit_code, calls>>
       \/ /\ \E left \in {AbsentFile, TruncatedFile} : files' = [files EXCEPT !.md_tmp = left]
          /\ ExportRaise
    /\ UNCHANGED <<argv, environ, holder, completed, wait_result, worker,
                   asr_output, diarization_output, diarization_warning, merged_segments>>

(* _write_atomic(transcript_path, markdown): temp_path.replace *)
ExportReplaceMd ==
    /\ pc = "export_md_replace"
    /\ \/ /\ files' = [files EXCEPT !.md = files.md_tmp, !.md_tmp = AbsentFile]
          /\ IF environ.save_json
             THEN /\ pc' = "export_json_write"
                  /\ UNCHANGED calls
             ELSE /\ pc' = "result"
                  /\ calls' = Append(calls, Call("export", "return"))
          /\ UNCHANGED <<events, exit_code>>
       \/ /\ ExportRaise
          /\ UNCHANGED files
    /\ UNCHANGED <<argv, environ, holder, completed, wait_result, worker,
                   asr_output, diarization_output, diarization_warning, merged_segments>>

(* _write_atomic(json_path, ...): temp_path.write_text *)
ExportWriteTempJson ==
    /\ pc = "export_json_write"
    /\ \/ /\ files' = [files EXCEPT !.json_tmp = JsonFile(merged_segments)]
          /\ pc' = "export_json_replace"
          /\ UNCHANGED <<events, exit_code, calls>>
       \/ /\ \E left \in {AbsentFile, TruncatedFile} : files' = [files EXCEPT !.json_tmp = left]
          /\ ExportRaise
    /\ UNCHANGED <<argv, environ, holder, completed, wait_result, worker,
                   asr_output, diarization_output, diarization_warning, merged_segments>>

(* _write_atomic(json_path, ...): temp_path.replace *)
ExportReplaceJson ==
    /\ pc = "export_json_replace"
    /\ \/ /\ files' = [files EXCEPT !.json = files.json_tmp, !.json_tmp = AbsentFile]
          /\ pc' = "result"
          /\ calls' = Append(calls, Call("export", "return"))
          /\ UNCHANGED <<events, exit_code>>
       \/ /\ ExportRaise
          /\ UNCHANGED files
    /\ UNCHANGED <<argv, environ, holder, completed, wait_result, worker,
                   asr_output, diarization_output, diarization_warning, merged_segments>>

(* emit_result(True, ...) and return 0 *)
MainSuccess ==
    /\ pc = "result"
    /\ events' = Append(events, ResultEvent(TRUE, "", SuccessMessage(diarization_warning)))
    /\ exit_code' = Exit(0)
    /\ pc' = "done"
    /\ UNCHANGED <<argv, environ, calls, holder, completed, wait_result, worker,
                   asr_output, diarization_output, diarization_warning, merged_segments, files>>

-----------------------------------------------------------------------------
(* worker/main.py: bootstrap_asr_model *)

BootstrapModelMissing ==
    /\ pc = "bootstrap"
    /\ Strip(argv.asr_model) = <<>>
    /\ FailWith(events, "ASR_MODEL_MISSING", "Missing ASR model for bootstrap run.")
    /\ UNCHANGED <<argv, environ, calls, holder, completed, wait_result, worker,
                   asr_output, diarization_output, diarization_warning, merged_segments, files>>

(* _create_bootstrap_wav(), called before the try block: an OSError raised by
   the temporary file or by wave.open leaves main without a handler *)
BootstrapCreateWav ==
    /\ pc = "bootstrap"
    /\ Strip(argv.asr_model) # <<>>
    /\ \/ /\ files' = [files EXCEPT !.bootstrap_wav = TRUE]
          /\ pc' = "bootstrap_try"
       \/ /\ \E left \in BOOLEAN : files' = [files EXCEPT !.bootstrap_wav = left]
          /\ pc' = "crashed"
    /\ UNCHANGED <<argv, environ, events, calls, exit_code, holder, completed, wait_result, worker,
                   asr_output, diarization_output, diarization_warning, merged_segments>>

BootstrapCall ==
    /\ pc = "bootstrap_try"
    /\ events' = Append(events, ProgressEvent("asr_bootstrap", "Loading ASR model"))
    /\ calls' = Append(calls, Call("asr", "call"))
    /\ pc' = "bootstrap_call"
    /\ UNCHANGED <<argv, environ, exit_code, holder, completed, wait_result, worker,
                   asr_output, diarization_output, diarization_warning, merged_segments, files>>

(* the finally clause: unlink, an OSError of which is swallowed *)
BootstrapUnlink ==
    \E removed \in BOOLEAN : files' = [files EXCEPT !.bootstrap_wav = ~removed]

(* variant: the failed bootstrap returns 0 *)
BootstrapRaiseExitZero ==
    /\ pc = "bootstrap_call"
    /\ calls' = Append(calls, Call("asr", "raise"))
    /\ \E exc \in Exceptions :
          events' = Append(events, ResultEvent(FALSE, "ASR_BOOTSTRAP_FAILED", exc.msg))
    /\ exit_code' = Exit(0)
    /\ pc' = "done"
    /\ BootstrapUnlink
    /\ UNCHANGED <<argv, environ, holder, completed, wait_result, worker,
                   asr_output, diarization_output, diarization_warning, merged_segments>>

BootstrapReturn ==
    /\ pc = "bootstrap_call"
    /\ calls' = Append(calls, Call("asr", "return"))
    /\ events' = Append(events, ResultEvent(TRUE, "", "ASR model ready"))
    /\ exit_code' = Exit(0)
    /\ pc' = "done"
    /\ BootstrapUnlink
    /\ UNCHANGED <<argv, environ, holder, completed, wait_result, worker,
                   asr_output, diarization_output, diarization_warning, merged_segments>>

BootstrapRaise ==
    /\ pc = "bootstrap_call"
    /\ calls' = Append(calls, Call("asr", "raise"))
    /\ \E exc \in Exceptions : FailWith(events, "ASR_BOOTSTRAP_FAILED", exc.msg)
    /\ BootstrapUnlink
    /\ UNCHANGED <<argv, environ, holder, completed, wait_result, worker,
                   asr_output, diarization_output, diarization_warning, merged_segments>>

-----------------------------------------------------------------------------
(* The worker process *)

(* steps of the main thread that wait for nothing but the deadline *)
MainStep ==
    \/ MainBootstrapMode \/ MainConfigPathMissing \/ MainLoadConfig
    \/ MainAudioNotFound \/ MainTokenMissing \/ MainMix
    \/ MixPassthrough \/ MixWriteTemp \/ MixReplace
    \/ MainStartTranscribe \/ MainWaitTimeout \/ MainWaitError \/ MainWaitResult
    \/ MainWaitKeyError
    \/ MainDiarize \/ MainDiarizeFallback \/ MainMerge
    \/ MainExport \/ ExportWriteTempMd \/ ExportReplaceMd
    \/ ExportWriteTempJson \/ ExportReplaceJson \/ MainSuccess
    \/ BootstrapModelMissing \/ BootstrapCreateWav \/ BootstrapCall

Next ==
    \/ MainBootstrapMode \/ MainConfigPathMissing \/ MainLoadConfig
    \/ MainAudioNotFound \/ MainTokenMissing \/ MainMix
    \/ MixPassthrough \/ MixWriteTemp \/ MixReplace
    \/ MainStartTranscribe \/ WorkerReturn \/ WorkerRaise \/ WorkerRaiseBaseException
    \/ MainWaitTimeout \/ MainWaitError \/ MainWaitResult \/ MainWaitKeyError
    \/ MainDiarize \/ MainDiarizeFallback \/ MainMerge
    \/ MainExport \/ ExportWriteTempMd \/ ExportReplaceMd
    \/ ExportWriteTempJson \/ ExportReplaceJson \/ MainSuccess
    \/ BootstrapModelMissing \/ BootstrapCreateWav \/ BootstrapCall
    \/ BootstrapReturn \/ BootstrapRaise

Spec == Init /\ [][Next]_vars

(* The deadline is finite and the main thread is scheduled; the providers owe nothing. *)
FairSpec == Spec /\ WF_vars(MainStep)

-----------------------------------------------------------------------------
(* merge_segments_with_speakers applied to arbitrary arguments *)

(* segments: two proper ones, one whose end precedes its start, one without "end" *)
SegmentShapes == {<<0, 2, TRUE>>, <<2, 4, TRUE>>, <<4, 0, TRUE>>, <<2, 0, FALSE>>}
TurnSpans == {<<0, 2>>, <<2, 4>>}

MergeSegments == {Segment(sh[1], sh[2], sh[3], t) : sh \in SegmentShapes, t \in Texts}

MergeTurns == {Turn(sp[1], sp[2], l) : sp \in TurnSpans, l \in Labels}

MergeInit ==
    /\ pc = "merge_call"
    /\ asr_output \in [text : {<<>>}, segments : SeqUpTo(MergeSegments, MaxSegs),
                       duration_seconds : {Duration}]
    /\ diarization_output \in SeqUpTo(MergeTurns, MaxTurns)
    /\ merged_segments = <<>>
    /\ argv = [bootstrap |-> FALSE, config |-> FALSE, asr_model |-> <<>>]
    /\ environ = DefaultEnviron
    /\ events = <<>>
    /\ calls = <<>>
    /\ exit_code = NoExit
    /\ holder = [has_result |-> FALSE, result |-> NoOutput, has_error |-> FALSE, error |-> NoError]
    /\ completed = FALSE
    /\ wait_result = "none"
    /\ worker = "idle"
    /\ diarization_warning = [set |-> FALSE, text |-> ""]
    /\ files = [primary |-> "original", mixing_tmp |-> FALSE, bootstrap_wav |-> FALSE,
                md |-> AbsentFile, md_tmp |-> AbsentFile,
                json |-> AbsentFile, json_tmp |-> AbsentFile]

MergeCall ==
    /\ pc = "merge_call"
    /\ merged_segments' = merge_segments_with_speakers(asr_output.segments, diarization_output)
    /\ pc' = "merge_returned"
    /\ UNCHANGED <<argv, environ, events, calls, exit_code, holder, completed, wait_result, worker,
                   asr_output, diarization_output, diarization_warning, files>>

MergeNext == MergeCall

MergeSpec == MergeInit /\ [][MergeNext]_vars

-----------------------------------------------------------------------------
(* pipeline/input_mix.py: maybe_mix_microphone_track on its own.

   A sample is a fraction [num, den] with den > 0; numpy's float32 rounding is
   left out.  The files hold mono tracks at one sample rate, the case where
   _to_mono and _resample return their argument.  A path is the sequence of its
   directory components with the stem and the suffix of its last component;
   all the files are in one directory and are told apart by their names.

   In this specification `environ` is the call: the path given and the file
   system at the call; `files` maps a name to the file; `calls` is the sequence
   of file operations; `holder` carries the locals and the value returned. *)

MaxSamples == 2

Frac(num, den) == [num |-> num, den |-> den]
FracAdd(a, b) == Frac(a.num * b.den + b.num * a.den, a.den * b.den)
FracHalf(a) == Frac(a.num, 2 * a.den)
FracAbs(a) == Frac(Abs(a.num), a.den)
FracLess(a, b) == a.num * b.den < b.num * a.den
FracDiv(a, b) == Frac(a.num * b.den, a.den * b.num)
FracZero == Frac(0, 1)
FracOne == Frac(1, 1)

(* sample values: -2.0, 0.0, 0.5 and 2.0 *)
SampleValues == {Frac(0 - 4, 2), Frac(0, 2), Frac(1, 2), Frac(4, 2)}
Tracks == SeqUpTo(SampleValues, MaxSamples)

AudioFile(samples) == [exists |-> TRUE, complete |-> TRUE, samples |-> samples]
NoFile == [exists |-> FALSE, complete |-> FALSE, samples |-> <<>>]
PartialFile == [exists |-> TRUE, complete |-> FALSE, samples |-> <<>>]

PathRecord(dirs, stem, suffix) == [dirs |-> dirs, stem |-> stem, suffix |-> suffix]

(* Path(system_wav_path): pathlib drops the "." components *)
PurePath(path) == [path EXCEPT !.dirs = SelectSeq(@, LAMBDA c : c # ".")]

FileName(path) == path.stem \o path.suffix

(* variant: the microphone file is looked up without the extension *)
MicPathWithoutSuffix(system_path) ==
    [system_path EXCEPT !.stem = system_path.stem \o ".mic", !.suffix = ""]

(* system_path.with_name(f"{system_path.stem}.mic{system_path.suffix}") *)
MicPath(system_path) == [system_path EXCEPT !.stem = system_path.stem \o ".mic"]

(* system_path.with_suffix(".mixing" + system_path.suffix) *)
MixingPath(system_path) == [system_path EXCEPT !.stem = system_path.stem \o ".mixing"]

(* np.pad(track, (0, length - len(track))) *)
PadTo(track, length) ==
    [i \in 1..Max(Len(track), length) |-> IF i <= Len(track) THEN track[i] ELSE FracZero]

(* float(np.max(np.abs(mixed))) if mixed.size > 0 else 0.0 *)
RECURSIVE PeakLoop(_, _, _)
PeakLoop(mixed, i, peak) ==
    IF i > Len(mixed) THEN peak
    ELSE IF FracLess(peak, FracAbs(mixed[i])) THEN PeakLoop(mixed, i + 1, FracAbs(mixed[i]))
         ELSE PeakLoop(mixed, i + 1, peak)

Peak(mixed) == PeakLoop(mixed, 1, FracZero)

(* variant: the mix is written without the division by its peak *)
MixedTrackUnscaled(system_mono, mic_mono) ==
    LET mixed_length == Max(Len(system_mono), Len(mic_mono))
        system == PadTo(system_mono, mixed_length)
        mic == PadTo(mic_mono, mixed_length)
    IN  [i \in 1..mixed_length |-> FracHalf(FracAdd(system[i], mic[i]))]

(* the track handed to sf.write *)
MixedTrack(system_mono, mic_mono) ==
    LET mixed_length == Max(Len(system_mono), Len(mic_mono))
        system == IF Len(system_mono) < mixed_length THEN PadTo(system_mono, mixed_length)
                  ELSE system_mono
        mic == IF Len(mic_mono) < mixed_length THEN PadTo(mic_mono, mixed_length)
               ELSE mic_mono
        mixed == [i \in 1..mixed_length |-> FracHalf(FracAdd(system[i], mic[i]))]
        peak == Peak(mixed)
    IN  IF FracLess(FracOne, peak)
        THEN [i \in 1..mixed_length |-> FracDiv(mixed[i], peak)]
        ELSE mixed

GivenPaths == {PathRecord(<<"d">>, "a", ".wav"), PathRecord(<<".", "d">>, "a", ".wav")}
FileNames == {"a.wav", "a.mic.wav", "a.mixing.wav", "a.mic"}

MixerLocals == [system_mono |-> <<>>, mic_mono |-> <<>>, returned |-> <<>>]

MixerInit ==
    /\ pc = "mixer_call"
    /\ \E path \in GivenPaths, system \in Tracks, mic \in {NoFile} \cup {AudioFile(t) : t \in Tracks},
          other \in {NoFile, AudioFile(<<>>)} :
          /\ files = [name \in FileNames |->
                        CASE name = "a.wav" -> AudioFile(system)
                          [] name = "a.mic.wav" -> mic
                          [] name = "a.mic" -> other
                          [] OTHER -> NoFile]
          /\ environ = [path |-> path, files |-> files]
    /\ holder = MixerLocals
    /\ calls = <<>>
    /\ events = <<>>
    /\ argv = [bootstrap |-> FALSE, config |-> FALSE, asr_model |-> <<>>]
    /\ exit_code = NoExit
    /\ completed = FALSE
    /\ wait_result = "none"
    /\ worker = "idle"
    /\ asr_output = NoOutput
    /\ diarization_output = <<>>
    /\ diarization_warning = [set |-> FALSE, text |-> ""]
    /\ merged_segments = <<>>

(* mic_path.exists(), and the return of the path when it does not *)
MixerCheck ==
    /\ pc = "mixer_call"
    /\ LET system_path == PurePath(environ.path)
           mic_path == MicPath(system_path)
       IN  /\ calls' = Append(calls, Call(FileName(mic_path), "exists"))
           /\ IF ~files[FileName(mic_path)].exists
              THEN /\ holder' = [holder EXCEPT !.returned = <<system_path>>]
                   /\ pc' = "mixer_returned"
              ELSE /\ pc' = "mixer_read"
                   /\ UNCHANGED holder
    /\ UNCHANGED <<argv, environ, events, exit_code, completed, wait_result, worker,
                   asr_output, diarization_output, diarization_warning, merged_segments, files>>

(* sf.read of the two files *)
MixerRead ==
    /\ pc = "mixer_read"
    /\ LET system_path == PurePath(environ.path)
           mic_path == MicPath(system_path)
       IN  \/ /\ calls' = calls \o <<Call(FileName(system_path), "read"),
                                     Call(FileName(mic_path), "read")>>
              /\ holder' = [holder EXCEPT !.system_mono = files[FileName(system_path)].samples,
                                          !.mic_mono = files[FileName(mic_path)].samples]
              /\ pc' = "mixer_write"
           \/ /\ calls' = Append(calls, Call(FileName(system_path), "read"))
              /\ pc' = "mixer_raised"
              /\ UNCHANGED holder
    /\ UNCHANGED <<argv, environ, events, exit_code, completed, wait_result, worker,
                   asr_output, diarization_output, diarization_warning, merged_segments, files>>

(* sf.write(str(temp_path), mixed, target_sr) *)
MixerWriteTemp ==
    /\ pc = "mixer_write"
    /\ LET temp_path == MixingPath(PurePath(environ.path))
       IN  /\ calls' = Append(calls, Call(FileName(temp_path), "write"))
           /\ \/ /\ files' = [files EXCEPT ![FileName(temp_path)] =
                                AudioFile(MixedTrack(holder.system_mono, holder.mic_mono))]
                 /\ pc' = "mixer_replace"
              \/ /\ \E left \in {NoFile, PartialFile} :
                       files' = [files EXCEPT ![FileName(temp_path)] = left]
                 /\ pc' = "mixer_raised"
    /\ UNCHANGED <<argv, environ, events, exit_code, holder, completed, wait_result, worker,
                   asr_output, diarization_output, diarization_warning, merged_segments>>

(* temp_path.replace(system_path), and the return of the path *)
MixerReplace ==
    /\ pc = "mixer_replace"
    /\ LET system_path == PurePath(environ.path)
           temp_path == MixingPath(system_path)
       IN  \/ /\ files' = [files EXCEPT ![FileName(system_path)] = files[FileName(temp_path)],
                                        ![FileName(temp_path)] = NoFile]
              /\ calls' = Append(calls, Call(FileName(system_path), "replace"))
              /\ holder' = [holder EXCEPT !.returned = <<system_path>>]
              /\ pc' = "mixer_returned"
           \/ /\ pc' = "mixer_raised"
              /\ UNCHANGED <<files, calls, holder>>
    /\ UNCHANGED <<argv, environ, events, exit_code, completed, wait_result, worker,
                   asr_output, diarization_output, diarization_warning, merged_segments>>

MixerNext == MixerCheck \/ MixerRead \/ MixerWriteTemp \/ MixerReplace

MixSpec == MixerInit /\ [][MixerNext]_vars

-----------------------------------------------------------------------------
(* pipeline/export.py: _format_timestamp applied to arbitrary starts, counted in
   tenths of a second.  `holder` carries the argument and the value returned. *)

MaxStartTenths == 800

(* every tenth from -4.0 s to the bound, and starts around 10, 60 and 100 minutes *)
StartTenths ==
    ((0 - 40)..MaxStartTenths) \cup {5994, 5995, 5996, 35994, 35995, 36000, 59995, 60000}

FormatInit ==
    /\ pc = "format_call"
    /\ holder \in [seconds10 : StartTenths, result : {""}]
    /\ argv = [bootstrap |-> FALSE, config |-> FALSE, asr_model |-> <<>>]
    /\ environ = DefaultEnviron
    /\ events = <<>>
    /\ calls = <<>>
    /\ exit_code = NoExit
    /\ completed = FALSE
    /\ wait_result = "none"
    /\ worker = "idle"
    /\ asr_output = NoOutput
    /\ diarization_output = <<>>
    /\ diarization_warning = [set |-> FALSE, text |-> ""]
    /\ merged_segments = <<>>
    /\ files = [primary |-> "original", mixing_tmp |-> FALSE, bootstrap_wav |-> FALSE,
                md |-> AbsentFile, md_tmp |-> AbsentFile,
                json |-> AbsentFile, json_tmp |-> AbsentFile]

FormatCall ==
    /\ pc = "format_call"
    /\ holder' = [holder EXCEPT !.result = FormatTimestampIn(holder.seconds10, 10)]
    /\ pc' = "format_returned"
    /\ UNCHANGED <<argv, environ, events, calls, exit_code, completed, wait_result, worker,
                   asr_output, diarization_output, diarization_warning, merged_segments, files>>

FormatNext == FormatCall

FormatSpec == FormatInit /\ [][FormatNext]_vars

-----------------------------------------------------------------------------
(* worker/main.py: _asr_timeout_seconds applied to arbitrary overrides.

   A float is [kind, negative, magnitude] with kind "finite", "inf" or "nan".
   `environ` carries OPPY_ASR_TIMEOUT_SECONDS, `holder` the value returned. *)

MaxChars == 3
DefaultTimeoutSeconds == 900

OverrideChars == {" ", "-", "0", "3", "i", "n", "f", "a", "x"}
Digits == {"0", "3", "9"}
DigitValue(c) == CASE c = "0" -> 0 [] c = "3" -> 3 [] c = "9" -> 9

Float(kind, negative, magnitude) == [kind |-> kind, negative |-> negative, magnitude |-> magnitude]

RECURSIVE DecimalValue(_)
DecimalValue(digits) ==
    IF digits = <<>> THEN 0
    ELSE 10 * DecimalValue(SubSeq(digits, 1, Len(digits) - 1)) + DigitValue(digits[Len(digits)])

(* float(text): [ok, value]; ok is FALSE where float raises ValueError *)
ParseFloat(text) ==
    LET stripped == Strip(text)
        negative == stripped # <<>> /\ Head(stripped) = "-"
        body == IF negative THEN Tail(stripped) ELSE stripped
    IN  IF body = <<"i", "n", "f">> THEN [ok |-> TRUE, value |-> Float("inf", negative, 0)]
        ELSE IF body = <<"n", "a", "n">> THEN [ok |-> TRUE, value |-> Float("nan", negative, 0)]
        ELSE IF body # <<>> /\ \A i \in 1..Len(body) : body[i] \in Digits
             THEN [ok |-> TRUE, value |-> Float("finite", negative, DecimalValue(body))]
             ELSE [ok |-> FALSE, value |-> Float("nan", FALSE, 0)]

(* timeout <= 0: false for nan, true for -inf, -0.0 and 0.0 *)
NotPositive(value) ==
    CASE value.kind = "nan" -> FALSE
      [] value.kind = "inf" -> value.negative
      [] OTHER -> value.negative \/ value.magnitude = 0

_asr_timeout_seconds(override) ==
    LET raw_value == Strip(IF override.set THEN override.text ELSE <<"9", "0", "0">>)
        parsed == ParseFloat(raw_value)
    IN  IF ~parsed.ok THEN Float("finite", FALSE, DefaultTimeoutSeconds)
        ELSE IF NotPositive(parsed.value) THEN Float("finite", FALSE, DefaultTimeoutSeconds)
        ELSE parsed.value

Overrides ==
    {[set |-> FALSE, text |-> <<>>]} \cup [set : {TRUE}, text : SeqUpTo(OverrideChars, MaxChars)]

TimeoutInit ==
    /\ pc = "timeout_call"
    /\ environ \in [override : Overrides]
    /\ holder = [returned |-> FALSE, timeout |-> Float("nan", FALSE, 0)]
    /\ argv = [bootstrap |-> FALSE, config |-> FALSE, asr_model |-> <<>>]
    /\ events = <<>>
    /\ calls = <<>>
    /\ exit_code = NoExit
    /\ completed = FALSE
    /\ wait_result = "none"
    /\ worker = "idle"
    /\ asr_output = NoOutput
    /\ diarization_output = <<>>
    /\ diarization_warning = [set |-> FALSE, text |-> ""]
    /\ merged_segments = <<>>
    /\ files = [primary |-> "original", mixing_tmp |-> FALSE, bootstrap_wav |-> FALSE,
                md |-> AbsentFile, md_tmp |-> AbsentFile,
                json |-> AbsentFile, json_tmp |-> AbsentFile]

TimeoutCall ==
    /\ pc = "timeout_call"
    /\ holder' = [returned |-> TRUE, timeout |-> _asr_timeout_seconds(environ.override)]
    /\ pc' = "timeout_returned"
    /\ UNCHANGED <<argv, environ, events, calls, exit_code, completed, wait_result, worker,
                   asr_output, diarization_output, diarization_warning, merged_segments, files>>

TimeoutNext == TimeoutCall

TimeoutSpec == TimeoutInit /\ [][TimeoutNext]_vars

-----------------------------------------------------------------------------
(* Vocabulary of the properties *)

IsResult(e) == e.type = "result"
IsProgress(e) == e.type = "progress"
Results == SelectSeq(events, IsResult)
LastEvent == events[Len(events)]
Terminated == pc \in {"done", "crashed"}
NormalMode == ~argv.bootstrap
StageOrder == <<"mix", "asr", "diarization", "merge", "export">>
StageNames == {StageOrder[i] : i \in 1..Len(StageOrder)}
Rank(stage) == CHOOSE i \in 1..Len(StageOrder) : StageOrder[i] = stage
ProgressCount(stage) ==
    Cardinality({i \in 1..Len(events) : IsProgress(events[i]) /\ events[i].stage = stage})
Called(op) == Contains(calls, Call(op, "call"))
Returned(op) == Contains(calls, Call(op, "return"))
Raised(op) == Contains(calls, Call(op, "raise"))
SucceededRun == pc = "done" /\ Len(events) > 0 /\ IsResult(LastEvent) /\ LastEvent.success
FailedRun == pc = "done" /\ Len(events) > 0 /\ IsResult(LastEvent) /\ ~LastEvent.success
FallbackNotices == {"Processing complete (diarization fallback: " \o m \o ")" : m \in Messages}
TranscriptSegmentLines == SelectSeq(files.md.lines, LAMBDA line : line.kind = "segment")

-----------------------------------------------------------------------------
(* C1: every invocation emits exactly one Result event, and that Result is the
   last event: when main has ended (returned or left by an uncaught error) the
   stream holds exactly one Result, and at no moment does any event follow a
   Result.  The code breaks it in bootstrap mode. *)
C1_ExactlyOneFinalResult ==
    /\ Terminated => Len(Results) = 1
    /\ \A i \in 1..Len(events) : IsResult(events[i]) => i = Len(events)

-----------------------------------------------------------------------------
(* C2: if the transcription call never signals completion, the run still ends:
   from the moment main waits on the call, either completion is signalled or
   main ends with the failure Result ASR_TIMEOUT and exit status 1 while the
   background call is still running. *)
TimedOutRun ==
    /\ pc = "done"
    /\ wait_result = "expired"
    /\ exit_code = Exit(1)
    /\ Len(Results) = 1
    /\ LastEvent = ResultEvent(FALSE, "ASR_TIMEOUT", TimeoutMessage)

C2_TimeoutTerminates == (pc = "asr_wait") ~> (completed \/ TimedOutRun)

C2_Witness == TimedOutRun /\ worker = "running" /\ ~completed

-----------------------------------------------------------------------------
(* C3: with a loaded config, when the audio file is missing or the token is
   absent or blank, no Progress event is ever emitted and no stage operation is
   ever invoked, and the run ends with the single failure Result
   INPUT_AUDIO_NOT_FOUND (audio missing) or HF_TOKEN_MISSING (audio present,
   token blank) and exit status 1. *)
TokenBlank ==
    \/ ~environ.token_set
    \/ \A i \in 1..Len(environ.token) : IsSpace(environ.token[i])

ValidationFails ==
    NormalMode /\ argv.config /\ environ.config_ok
    /\ (~environ.audio_exists \/ TokenBlank)

C3_ValidationPreempts ==
    ValidationFails =>
        /\ calls = <<>>
        /\ \A i \in 1..Len(events) : ~IsProgress(events[i])
        /\ pc \in {"start", "validate", "done"}
        /\ pc = "done" =>
              /\ Len(events) = 1
              /\ IsResult(events[1]) /\ ~events[1].success
              /\ events[1].error_code =
                    IF ~environ.audio_exists THEN "INPUT_AUDIO_NOT_FOUND" ELSE "HF_TOKEN_MISSING"
              /\ exit_code = Exit(1)

C3_Witness ==
    /\ ValidationFails /\ pc = "done"
    /\ environ.audio_exists /\ environ.token_set /\ environ.token = <<" ">>
    /\ events[1].error_code = "HF_TOKEN_MISSING"

-----------------------------------------------------------------------------
(* C4, as claimed: if the diarization call fails, the run ends with a success
   Result and exit status 0, merge and export having run with an empty turn
   list, and every segment line of the transcript carries 'Speaker ?'. *)
C4_Original ==
    (pc = "done" /\ Raised("diarization")) =>
        /\ SucceededRun /\ exit_code = Exit(0)
        /\ Returned("merge") /\ Returned("export")
        /\ \A i \in 1..Len(TranscriptSegmentLines) :
              TranscriptSegmentLines[i].speaker = UnknownSpeaker

(* C4, amended: a failed diarization call never fails the run by itself: the
   turn list is empty from then on, merge runs, export is invoked, and the run
   ends either with an error raised by export itself or with a success Result
   and exit status 0, every segment line of the transcript then carrying
   'Speaker ?'. *)
C4_DiarizationFailureIsNotFatal ==
    Raised("diarization") =>
        /\ diarization_output = <<>>
        /\ pc \in {"merge", "export", "export_md_write", "export_md_replace",
                   "export_json_write", "export_json_replace", "result", "done"}
        /\ pc = "done" =>
              /\ Returned("merge") /\ Called("export")
              /\ \/ /\ Raised("export")
                    /\ FailedRun /\ LastEvent.error_code = "WORKER_EXCEPTION"
                 \/ /\ Returned("export")
                    /\ SucceededRun /\ exit_code = Exit(0)
                    /\ files.md.exists /\ files.md.complete
                    /\ \A i \in 1..Len(TranscriptSegmentLines) :
                          TranscriptSegmentLines[i].speaker = UnknownSpeaker

C4_Witness ==
    /\ Raised("diarization") /\ SucceededRun
    /\ Len(TranscriptSegmentLines) = MaxSegs
    /\ \A i \in 1..Len(TranscriptSegmentLines) :
          TranscriptSegmentLines[i].speaker = UnknownSpeaker

-----------------------------------------------------------------------------
(* C5: the message of the final success Result contains the diarization
   fallback notice if and only if the diarization call failed in that run,
   whatever the text of the error.  The code breaks it for an error whose
   text is empty. *)
C5_FallbackNoticeIffFailed ==
    (SucceededRun /\ NormalMode) =>
        (LastEvent.message \in FallbackNotices <=> Raised("diarization"))

-----------------------------------------------------------------------------
(* C6: a failed run reports ASR_TIMEOUT if and only if the deadline expired
   before the transcription call completed; a transcription error observed
   within the deadline is reported as WORKER_EXCEPTION with that error's
   message, whatever its type.  The code breaks it for a TimeoutError raised
   by the provider. *)
C6_TimeoutKindIffDeadline ==
    (FailedRun /\ NormalMode) =>
        /\ LastEvent.error_code = "ASR_TIMEOUT" <=> wait_result = "expired"
        /\ (wait_result = "signalled" /\ holder.has_error) =>
              /\ LastEvent.error_code = "WORKER_EXCEPTION"
              /\ LastEvent.message = holder.error.msg

-----------------------------------------------------------------------------
(* C7: stages are entered in the order mix, asr, diarization, merge, export with
   none skipped: at every point the stages of the Progress events emitted so
   far start with mix and each is the stage of the event before it or the next
   stage; a stage's operation is invoked only when the previous stage's
   operation has ended its call (returned, or raised in the case of the
   diarization, which is recoverable) and no other operation is in flight; a
   success Result is emitted only after all five stages were entered and their
   operations ended. *)
ProgressStages ==
    LET progress == SelectSeq(events, IsProgress)
    IN  [i \in 1..Len(progress) |-> progress[i].stage]

StagesInOrder ==
    LET stages == ProgressStages
    IN  /\ \A i \in 1..Len(stages) : stages[i] \in StageNames
        /\ Len(stages) > 0 => stages[1] = StageOrder[1]
        /\ \A i \in 1..Len(stages) - 1 :
              Rank(stages[i + 1]) \in {Rank(stages[i]), Rank(stages[i]) + 1}

Ended(call) == call.ev = "return" \/ (call.ev = "raise" /\ call.op = "diarization")

CallsInOrder ==
    \A i \in 1..Len(calls) :
        calls[i].ev = "call" =>
            IF Rank(calls[i].op) = 1 THEN i = 1
            ELSE /\ i > 1
                 /\ calls[i - 1].op = StageOrder[Rank(calls[i].op) - 1]
                 /\ Ended(calls[i - 1])

C7_StagesInOrder ==
    NormalMode =>
        /\ StagesInOrder
        /\ CallsInOrder
        /\ (\E i \in 1..Len(events) : IsResult(events[i]) /\ events[i].success) =>
              \A stage \in StageNames :
                  /\ ProgressCount(stage) >= 1
                  /\ Returned(stage) \/ (stage = "diarization" /\ Raised(stage))

C7_Witness ==
    /\ NormalMode /\ SucceededRun
    /\ Returned("diarization")
    /\ ProgressStages = StageOrder

-----------------------------------------------------------------------------
(* C8, as claimed: for each stage the run enters, exactly one Progress event
   with that stage name is emitted, whether its operation succeeds or fails. *)
C8_Original ==
    NormalMode =>
        \A stage \in StageNames :
            /\ Called(stage) => ProgressCount(stage) >= 1
            /\ ProgressCount(stage) <= 1

(* C8, amended: for each stage the run enters, exactly one Progress event with
   that stage name is emitted, except that a failed diarization call adds a
   second Progress event of stage diarization (the fallback notice). *)
C8_OneProgressPerStage ==
    NormalMode =>
        \A stage \in StageNames :
            /\ Called(stage) => ProgressCount(stage) >= 1
            /\ ProgressCount(stage) <=
                  IF stage = "diarization" /\ Raised("diarization") THEN 2 ELSE 1
            /\ (stage = "diarization" /\ Raised("diarization")) => ProgressCount(stage) = 2

C8_Witness ==
    /\ NormalMode /\ SucceededRun /\ Raised("diarization")
    /\ ProgressCount("diarization") = 2
    /\ \A stage \in StageNames \ {"diarization"} : ProgressCount(stage) = 1

-----------------------------------------------------------------------------
(* C9: main returns an exit status exactly when it has emitted its Result, and
   the status is 0 exactly when that Result has success true and 1 exactly
   when it has success false, in the normal and in the bootstrap mode. *)
C9_ExitStatusMatchesResult ==
    /\ exit_code.set <=> Len(Results) >= 1
    /\ exit_code.set =>
          /\ Len(Results) = 1
          /\ exit_code.value \in {0, 1}
          /\ exit_code.value = 0 <=> Results[1].success
          /\ exit_code.value = 1 <=> ~Results[1].success

C9_Witness ==
    /\ pc = "done" /\ argv.bootstrap
    /\ exit_code = Exit(1)
    /\ Results[1].error_code = "ASR_BOOTSTRAP_FAILED"

-----------------------------------------------------------------------------
(* C10: for a non-empty turn list, merge labels the k-th distinct raw label, in
   order of first appearance across the output segments, 'Speaker k': the
   labels used are exactly 'Speaker 1' .. 'Speaker N', N the number of distinct
   raw labels assigned; two segments share a label exactly when they were
   assigned the same raw label; 'Speaker ?' is never produced. *)
KeptSegments == SelectSeq(asr_output.segments, LAMBDA seg : Strip(seg.text) # <<>>)
RawLabelOf(i) == AssignSpeaker(KeptSegments[i], diarization_output)
FirstAppearance(i) == CHOOSE j \in 1..i :
    /\ RawLabelOf(j) = RawLabelOf(i)
    /\ \A k \in 1..j - 1 : RawLabelOf(k) # RawLabelOf(i)
DistinctBefore(i) == Cardinality({RawLabelOf(j) : j \in 1..FirstAppearance(i)})
SpeakerLabel(k) == "Speaker " \o ToString(k)

C10_LabelsByFirstAppearance ==
    (pc = "merge_returned" /\ diarization_output # <<>>) =>
        LET n == Len(merged_segments)
            used == {merged_segments[i].speaker : i \in 1..n}
            distinct == Cardinality({RawLabelOf(i) : i \in 1..Len(KeptSegments)})
        IN  /\ n = Len(KeptSegments)
            /\ \A i \in 1..n : merged_segments[i].speaker = SpeakerLabel(DistinctBefore(i))
            /\ used = {SpeakerLabel(k) : k \in 1..distinct}
            /\ \A i, j \in 1..n :
                  merged_segments[i].speaker = merged_segments[j].speaker
                      <=> RawLabelOf(i) = RawLabelOf(j)
            /\ UnknownSpeaker \notin used

(* two segments, the first assigned the second turn's label *)
C10_Witness ==
    /\ pc = "merge_returned"
    /\ Len(diarization_output) = 2 /\ Len(merged_segments) = 2
    /\ diarization_output[1].speaker # diarization_output[2].speaker
    /\ RawLabelOf(1) = diarization_output[2].speaker
    /\ RawLabelOf(2) = diarization_output[1].speaker
    /\ merged_segments[1].speaker = "Speaker 1"
    /\ merged_segments[2].speaker = "Speaker 2"

-----------------------------------------------------------------------------
(* C11: when the turn list is empty, merge returns one entry per input segment
   whose trimmed text is non-empty, in the input order, each with the speaker
   'Speaker ?' and the trimmed text. *)
C11_NoTurnsAllUnknown ==
    (pc = "merge_returned" /\ diarization_output = <<>>) =>
        /\ Len(merged_segments) = Len(KeptSegments)
        /\ \A i \in 1..Len(merged_segments) :
              /\ merged_segments[i].speaker = UnknownSpeaker
              /\ merged_segments[i].start = KeptSegments[i].start
              /\ merged_segments[i].text = Strip(KeptSegments[i].text)

(* a blank segment is dropped and the segment after it is kept *)
C11_Witness ==
    /\ pc = "merge_returned" /\ diarization_output = <<>>
    /\ Len(asr_output.segments) = MaxSegs
    /\ Len(merged_segments) = MaxSegs - 1
    /\ merged_segments[1].speaker = UnknownSpeaker
    /\ Strip(asr_output.segments[1].text) = <<>>

-----------------------------------------------------------------------------
(* C12: for every segment list and turn list, empty or not, the merge output
   has exactly one entry for each input segment whose trimmed text is
   non-empty and none for the others, in the input order, each carrying the
   trimmed text: no entry has an empty text. *)
C12_OneEntryPerNonEmptySegment ==
    pc = "merge_returned" =>
        /\ Len(merged_segments) = Len(KeptSegments)
        /\ Len(merged_segments) =
              Cardinality({i \in 1..Len(asr_output.segments) :
                              \E j \in 1..Len(asr_output.segments[i].text) :
                                  ~IsSpace(asr_output.segments[i].text[j])})
        /\ \A i \in 1..Len(merged_segments) :
              /\ merged_segments[i].text # <<>>
              /\ merged_segments[i].text = Strip(KeptSegments[i].text)
              /\ merged_segments[i].start = KeptSegments[i].start

C12_Witness ==
    /\ pc = "merge_returned" /\ diarization_output # <<>>
    /\ Len(asr_output.segments) = MaxSegs
    /\ Strip(asr_output.segments[MaxSegs].text) = <<>>
    /\ Len(merged_segments) = MaxSegs - 1
    /\ merged_segments[1].text = <<"a">>

-----------------------------------------------------------------------------
(* C13: the exported Markdown transcript contains the 'Raw Text' section if and
   only if no segment line was rendered.  The code breaks it: the section is
   also appended after a single segment line, and it is left out of a
   transcript without segment lines when the full text is empty. *)
HasRawTextSection(file) == \E i \in 1..Len(file.lines) : file.lines[i].kind = "raw_header"

C13_RawTextIffNoSegmentLines ==
    (files.md.exists /\ files.md.complete) =>
        (HasRawTextSection(files.md) <=> Len(TranscriptSegmentLines) = 0)

-----------------------------------------------------------------------------
(* C14: every artifact write is atomic: at every moment each canonical path (the
   Markdown transcript, the JSON sidecar, the primary audio file) is absent,
   holds its previous complete content or holds the complete new content; a
   partial content is only ever at a temporary sibling path.  As every state is
   covered, so is a crash after any single step of a write. *)
C14_CanonicalPathsNeverPartial ==
    /\ files.primary \in {"original", "mixed"}
    /\ files.primary = "mixed" => (environ.mic_exists /\ ~files.mixing_tmp)
    /\ files.md.exists =>
          /\ files.md.complete
          /\ files.md.lines = RenderMarkdown(merged_segments, asr_output.text)
          /\ pc \in {"export_json_write", "export_json_replace", "result", "done"}
    /\ files.json.exists =>
          /\ files.json.complete
          /\ files.json.segments = merged_segments
          /\ pc \in {"result", "done"}
    /\ pc \in {"export", "export_md_write"} => ~files.md.exists

(* a write of the sidecar broke off: the partial content is at the temporary path *)
C14_Witness ==
    /\ pc = "done" /\ Raised("export")
    /\ files.primary = "mixed"
    /\ files.json_tmp = TruncatedFile /\ ~files.json.exists
    /\ files.md.exists /\ files.md.complete

-----------------------------------------------------------------------------
(* C15: if a run ends with a failure Result because an error was raised after
   the export stage started, no transcript written by that run is at the
   canonical Markdown or JSON path.  The code breaks it: an error raised while
   the sidecar is written leaves the Markdown transcript, already renamed into
   place. *)
C15_FailedRunLeavesNoTranscript ==
    (FailedRun /\ Raised("export")) => (~files.md.exists /\ ~files.json.exists)

-----------------------------------------------------------------------------
(* C16: the mixer returns the primary path it was given, and it changes the
   primary file if and only if the sibling microphone file (same stem, '.mic'
   before the extension) exists; when that file does not exist the primary
   file is neither read nor written and its content is unchanged. *)
GivenName == environ.path.stem \o environ.path.suffix
SiblingMicName == environ.path.stem \o ".mic" \o environ.path.suffix
MicExistedAtCall == environ.files[SiblingMicName].exists
Components(path) == SelectSeq(path.dirs, LAMBDA c : c # ".") \o <<path.stem \o path.suffix>>
TouchedPrimary ==
    \E i \in 1..Len(calls) : calls[i].op = GivenName /\ calls[i].ev \in {"read", "write", "replace"}

C16_MixesIffMicrophoneExists ==
    /\ pc = "mixer_returned" =>
          /\ Len(holder.returned) = 1
          /\ Components(holder.returned[1]) = Components(environ.path)
          /\ Contains(calls, Call(GivenName, "replace")) <=> MicExistedAtCall
    /\ ~MicExistedAtCall =>
          /\ ~TouchedPrimary
          /\ files = environ.files
          /\ pc \in {"mixer_call", "mixer_returned"}

(* no microphone file, while a file named like it without the extension exists *)
C16_Witness ==
    /\ pc = "mixer_returned"
    /\ ~MicExistedAtCall /\ environ.files["a.mic"].exists
    /\ environ.path.dirs # holder.returned[1].dirs
    /\ files[GivenName] = environ.files[GivenName]

-----------------------------------------------------------------------------
(* C17: when a microphone track exists, the written track has the length of
   the longer of the primary and the secondary, its sample i is half the sum of
   the zero-padded primary and secondary samples at i, divided by the peak
   absolute value when that peak exceeds 1, so that every written sample lies
   in [-1, 1]; a mix whose peak is 0 is written as it is. *)
FracEq(a, b) == a.num * b.den = b.num * a.den
PrimaryAtCall == environ.files[GivenName].samples
SecondaryAtCall == environ.files[SiblingMicName].samples
ZeroPadded(track, i) == IF i <= Len(track) THEN track[i] ELSE Frac(0, 1)
HalfSumAt(i) ==
    LET a == ZeroPadded(PrimaryAtCall, i)
        b == ZeroPadded(SecondaryAtCall, i)
    IN  Frac(a.num * b.den + b.num * a.den, 2 * a.den * b.den)
LongerLength == Max(Len(PrimaryAtCall), Len(SecondaryAtCall))
IsPeak(peak) ==
    /\ \A i \in 1..LongerLength : Abs(HalfSumAt(i).num) * peak.den <= peak.num * HalfSumAt(i).den
    /\ \/ LongerLength = 0 /\ peak.num = 0
       \/ \E i \in 1..LongerLength : FracEq(peak, Frac(Abs(HalfSumAt(i).num), HalfSumAt(i).den))
PeakExceedsOne == \E i \in 1..LongerLength : Abs(HalfSumAt(i).num) > HalfSumAt(i).den
WrittenTrack == files[GivenName].samples

C17_MixIsScaledHalfSum ==
    (pc = "mixer_returned" /\ MicExistedAtCall) =>
        /\ Len(WrittenTrack) = LongerLength
        /\ \A i \in 1..LongerLength :
              /\ WrittenTrack[i].den > 0
              /\ Abs(WrittenTrack[i].num) <= WrittenTrack[i].den
              /\ IF PeakExceedsOne
                 THEN \E j \in 1..LongerLength :
                         LET peak == Frac(Abs(HalfSumAt(j).num), HalfSumAt(j).den)
                         IN  /\ IsPeak(peak)
                             /\ FracEq(WrittenTrack[i],
                                       Frac(HalfSumAt(i).num * peak.den,
                                            HalfSumAt(i).den * peak.num))
                 ELSE FracEq(WrittenTrack[i], HalfSumAt(i))

(* tracks of different lengths whose mix peaks above 1 and is scaled down *)
C17_Witness ==
    /\ pc = "mixer_returned" /\ MicExistedAtCall
    /\ Len(PrimaryAtCall) < Len(SecondaryAtCall)
    /\ PeakExceedsOne
    /\ \E i \in 1..LongerLength : FracEq(WrittenTrack[i], Frac(1, 1))
    /\ \E i \in 1..LongerLength : ~FracEq(WrittenTrack[i], HalfSumAt(i))

(* a silent mix is written as it is *)
C17_SilentWitness ==
    /\ pc = "mixer_returned" /\ MicExistedAtCall
    /\ LongerLength = MaxSamples
    /\ \A i \in 1..LongerLength : WrittenTrack[i].num = 0 /\ WrittenTrack[i].den > 0

-----------------------------------------------------------------------------
(* C18: the rendered timestamp of a start is 'MM:SS' with total = max(0, start)
   rounded to the nearest whole second, MM = total div 60 and SS = total mod
   60, each padded with zeros to two digits: a negative start renders as
   '00:00', SS is within 00..59, and 75.4 renders as '01:15'. *)
TwoDigits(n) == IF n < 10 THEN "0" \o ToString(n) ELSE ToString(n)
ClippedTenths == IF holder.seconds10 < 0 THEN 0 ELSE holder.seconds10
WholeSecondsAround == {ClippedTenths \div 10, ClippedTenths \div 10 + 1}
NearestSeconds == {total \in WholeSecondsAround :
                      \A other \in WholeSecondsAround :
                          Abs(10 * total - ClippedTenths) <= Abs(10 * other - ClippedTenths)}

C18_TimestampIsRoundedMinutesSeconds ==
    pc = "format_returned" =>
        /\ \E total \in NearestSeconds :
              /\ total % 60 \in 0..59
              /\ holder.result = TwoDigits(total \div 60) \o ":" \o TwoDigits(total % 60)
        /\ holder.seconds10 < 0 => holder.result = "00:00"
        /\ holder.seconds10 = 754 => holder.result = "01:15"

C18_Witness ==
    /\ pc = "format_returned"
    /\ holder.seconds10 = 754
    /\ holder.result = "01:15"

(* 75.6 s is rendered as the next second, and -3.0 s as zero *)
C18_RoundsUpWitness ==
    /\ pc = "format_returned"
    /\ \/ holder.seconds10 = 756 /\ holder.result = "01:16"
       \/ holder.seconds10 = 0 - 30 /\ holder.result = "00:00"

-----------------------------------------------------------------------------
(* C19: the effective transcription deadline is 900 seconds when the override is
   absent, unparsable as a number or not positive, and the parsed value
   otherwise; in every case it is a positive finite number of seconds.  The
   code breaks it for the overrides 'inf' and 'nan', which float() accepts. *)
OverrideText == Strip(environ.override.text)
OverrideIsPositiveNumber ==
    /\ environ.override.set
    /\ OverrideText # <<>>
    /\ \A i \in 1..Len(OverrideText) : OverrideText[i] \in Digits
    /\ DecimalValue(OverrideText) > 0

C19_DeadlineIsPositiveFinite ==
    pc = "timeout_returned" =>
        /\ holder.timeout.kind = "finite"
        /\ ~holder.timeout.negative
        /\ holder.timeout.magnitude > 0
        /\ holder.timeout.magnitude =
              IF OverrideIsPositiveNumber THEN DecimalValue(OverrideText)
              ELSE DefaultTimeoutSeconds

(* what does hold: the default for an absent, unparsable, zero or negative
   override, and the parsed value for a positive number *)
C19_FiniteOverrides ==
    (pc = "timeout_returned" /\ OverrideText \notin {<<"i", "n", "f">>, <<"n", "a", "n">>,
                                                    <<"-", "n", "a", "n">>}) =>
        /\ holder.timeout.kind = "finite"
        /\ ~holder.timeout.negative
        /\ holder.timeout.magnitude =
              IF OverrideIsPositiveNumber THEN DecimalValue(OverrideText)
              ELSE DefaultTimeoutSeconds

-----------------------------------------------------------------------------
(* C20: in bootstrap mode a blank model identifier yields the failure Result
   ASR_MODEL_MISSING with no Progress event and no provider call; otherwise
   exactly one Progress event, of stage 'asr_bootstrap', is emitted before the
   provider is called on the synthetic clip, the Result is a success exactly
   when the provider call returns without error, and the temporary clip is
   deleted on both outcomes.  The code breaks it when the clip cannot be
   created (no event at all) and when the clip cannot be deleted. *)
ModelBlank == \A i \in 1..Len(argv.asr_model) : IsSpace(argv.asr_model[i])
BootstrapProgress == SelectSeq(events, IsProgress)

C20_BootstrapWarmsUpOnce ==
    (argv.bootstrap /\ Terminated) =>
        IF ModelBlank
        THEN /\ Len(events) = 1
             /\ IsResult(events[1]) /\ ~events[1].success
             /\ events[1].error_code = "ASR_MODEL_MISSING"
             /\ calls = <<>>
        ELSE /\ Len(BootstrapProgress) = 1
             /\ IsProgress(events[1]) /\ events[1].stage = "asr_bootstrap"
             /\ Len(calls) = 2 /\ calls[1] = Call("asr", "call")
             /\ Len(Results) = 1
             /\ Results[1].success <=> Returned("asr")
             /\ ~Results[1].success <=> Raised("asr")
             /\ ~files.bootstrap_wav

(* what does hold: the same, for the runs in which the clip was created, the
   deletion of the clip left aside *)
C20_WhenClipCreated ==
    (argv.bootstrap /\ pc = "done") =>
        IF ModelBlank
        THEN /\ Len(events) = 1
             /\ IsResult(events[1]) /\ ~events[1].success
             /\ events[1].error_code = "ASR_MODEL_MISSING"
             /\ calls = <<>>
        ELSE /\ Len(BootstrapProgress) = 1
             /\ IsProgress(events[1]) /\ events[1].stage = "asr_bootstrap"
             /\ Len(calls) = 2 /\ calls[1] = Call("asr", "call")
             /\ Len(Results) = 1
             /\ Results[1].success <=> Returned("asr")
             /\ ~Results[1].success <=> Raised("asr")

-----------------------------------------------------------------------------
(* C21: for a non-empty turn list and every segment with a non-empty text, the
   raw label merge assigns is the label of the first turn, in iteration order,
   whose overlap with the segment is the greatest, when some turn has a
   positive overlap; otherwise the label of the first turn that minimizes
   min(|midpoint - turn.start|, |midpoint - turn.end|), midpoint being
   (start + end) / 2.  It is claimed for every label the provider can emit;
   the code breaks it for a turn whose label is the empty string. *)
ClampedEnd(seg) ==
    IF seg.has_end /\ seg.end >= seg.start THEN seg.end ELSE seg.start
OverlapWith(seg, turn) ==
    LET low == IF seg.start >= turn.start THEN seg.start ELSE turn.start
        high == IF ClampedEnd(seg) <= turn.end THEN ClampedEnd(seg) ELSE turn.end
    IN  IF high > low THEN high - low ELSE 0
DoubledDistance(seg, turn) ==
    LET mid2 == seg.start + ClampedEnd(seg)
        to_start == Abs(mid2 - 2 * turn.start)
        to_end == Abs(mid2 - 2 * turn.end)
    IN  IF to_start <= to_end THEN to_start ELSE to_end
SomeOverlap(seg, turns) == \E j \in 1..Len(turns) : OverlapWith(seg, turns[j]) > 0
FirstGreatestOverlap(seg, turns) ==
    CHOOSE j \in 1..Len(turns) :
        /\ \A k \in 1..Len(turns) : OverlapWith(seg, turns[k]) <= OverlapWith(seg, turns[j])
        /\ \A k \in 1..j - 1 : OverlapWith(seg, turns[k]) < OverlapWith(seg, turns[j])
FirstNearest(seg, turns) ==
    CHOOSE j \in 1..Len(turns) :
        /\ \A k \in 1..Len(turns) : DoubledDistance(seg, turns[j]) <= DoubledDistance(seg, turns[k])
        /\ \A k \in 1..j - 1 : DoubledDistance(seg, turns[j]) < DoubledDistance(seg, turns[k])
ClaimedRawLabel(seg, turns) ==
    IF SomeOverlap(seg, turns) THEN turns[FirstGreatestOverlap(seg, turns)].speaker
    ELSE turns[FirstNearest(seg, turns)].speaker

C21_RawLabelByOverlapThenNearest ==
    (pc = "merge_returned" /\ diarization_output # <<>>) =>
        \A i \in 1..Len(KeptSegments) :
            RawLabelOf(i) = ClaimedRawLabel(KeptSegments[i], diarization_output)

(* what does hold: the same when no turn carries the empty label *)
C21_WhenLabelsNonEmpty ==
    (/\ pc = "merge_returned" /\ diarization_output # <<>>
     /\ \A j \in 1..Len(diarization_output) : diarization_output[j].speaker # "") =>
        \A i \in 1..Len(KeptSegments) :
            RawLabelOf(i) = ClaimedRawLabel(KeptSegments[i], diarization_output)

-----------------------------------------------------------------------------
(* C23: every segment returned by merge has end >= start, for all input
   segments, one whose end precedes its start or is missing included, whether
   the turn list is empty or not.  The code breaks it when the turn list is
   empty. *)
C23_EndNotBeforeStart ==
    pc = "merge_returned" =>
        \A i \in 1..Len(merged_segments) : merged_segments[i].end >= merged_segments[i].start

(* what does hold: the same for a non-empty turn list *)
C23_WithTurns ==
    (pc = "merge_returned" /\ diarization_output # <<>>) =>
        \A i \in 1..Len(merged_segments) :
            /\ merged_segments[i].end >= merged_segments[i].start
            /\ merged_segments[i].end = ClampedEnd(KeptSegments[i])

-----------------------------------------------------------------------------
(* C22: in every interleaving of the background transcription call and the
   deadline: if the completion of the call is observed before the deadline
   expires, the runner returns exactly the value the call produced or raises
   again exactly the error it raised, never a missing or stale value; if the
   deadline expires first, diarization, merge and export are never invoked in
   that run and a later completion of the call changes neither the events
   emitted nor any artifact.  The code breaks it for an error that is no
   Exception: the holder is empty and the runner raises a KeyError. *)
ExpiredRunIsOver ==
    /\ pc = "done"
    /\ ~Called("diarization") /\ ~Called("merge") /\ ~Called("export")
    /\ Len(Results) = 1
    /\ LastEvent = ResultEvent(FALSE, "ASR_TIMEOUT", TimeoutMessage)
    /\ ~files.md.exists /\ ~files.json.exists
    /\ ~files.md_tmp.exists /\ ~files.json_tmp.exists

C22_CompletionOrDeadline ==
    /\ (wait_result = "signalled" /\ Returned("asr")) =>
          /\ holder.has_result /\ ~holder.has_error
          /\ asr_output = holder.result
          /\ asr_output \in AsrOutputs
    /\ (wait_result = "signalled" /\ Raised("asr")) =>
          /\ holder.has_error
          /\ holder.error \in Exceptions
          /\ FailedRun /\ LastEvent.message = holder.error.msg
          /\ ~Called("diarization")
    /\ wait_result = "expired" => ExpiredRunIsOver

(* what does hold: the same when the error raised by the call is an Exception *)
C22_WhenErrorIsException ==
    /\ (wait_result = "signalled" /\ Returned("asr")) =>
          /\ holder.has_result /\ ~holder.has_error
          /\ asr_output = holder.result
          /\ asr_output \in AsrOutputs
    /\ (wait_result = "signalled" /\ Raised("asr") /\ holder.has_error) =>
          /\ holder.error \in Exceptions
          /\ FailedRun /\ LastEvent.message = holder.error.msg
          /\ ~Called("diarization")
    /\ wait_result = "expired" => ExpiredRunIsOver

(* the call completes after the deadline expired *)
C22_LateCompletion ==
    wait_result = "expired" /\ worker = "finished" /\ holder.has_result

====
